---- MODULE Spec2Model ----
(***************************************************************************)
(* A model of pyramid_srpauth.noncemanager.SignedNonceManager.             *)
(*                                                                         *)
(* Byte strings (Python 2 str) are sequences of character codes, so that   *)
(* split/rsplit, int(s, 16), hex() and the string ordering used by the     *)
(* heap are modelled by what they do on the characters.                    *)
(*                                                                         *)
(* Time.  The clock `now` counts units of 1/(10*Sub) seconds, so that      *)
(* int(time.time() * 10) truncates (now \div Sub).  Quantities that the    *)
(* code holds in seconds (timeout, soft_timeout) are held in tenths of a   *)
(* second, which keeps them integers; expiry_time <= time.time() is then   *)
(* compared in clock units.  Floating point rounding of `* 0.1` is not     *)
(* modelled.                                                               *)
(*                                                                         *)
(* HMAC is idealised as an injective function of (key, message) and        *)
(* base64 as an injective recoding into an alphabet without ":".           *)
(***************************************************************************)
EXTENDS Integers, Sequences, FiniteSets, TLC

VARIABLES
    now,                \* time.time(), in clock units
    ctor_args,          \* history: the arguments the manager was constructed with
    timeout,            \* self.timeout (tenths of a second)
    soft_timeout,       \* self.soft_timeout: None or Some(tenths)
    sign_headers,       \* self.sign_headers
    nonce_counts,       \* self._nonce_counts: dict nonce -> count
    nonce_purge_queue,  \* self._nonce_purge_queue: heapq list
    nonce_purge_lock,   \* self._nonce_purge_lock: None or Some(holder)
    pc,                 \* per thread: position inside set_nonce_count
    frame,              \* per thread: locals of set_nonce_count / purge, and
                        \* (history) the queue length its sweep started from
    issued,             \* history: the nonce the client holds, and its request
    written,            \* history: nonce -> the count last set, unless purged since
    ever_set,           \* history: the nonces set_nonce_count was called on
    last                \* history: the last completed call and its result

vars == <<now, ctor_args, timeout, soft_timeout, sign_headers, nonce_counts,
          nonce_purge_queue, nonce_purge_lock, pc, frame, issued,
          written, ever_set, last>>

-----------------------------------------------------------------------------
(* Bounds of the model *)

\* clock units per tenth of a second (resolution of time.time() below 0.1s)
Sub == 2
\* tenths of a second on the clock at the first state
StartTenths == 15
\* tenths of a second the clock may advance
Horizon == 3
\* os.urandom(3) returns the big-endian bytes of a number in 0..MaxRand
MaxRand == 1
\* sys.maxint, scaled down to the clock of the model: a larger int is a long
MaxInt == 16
\* nonce counts passed to set_nonce_count are 1..MaxNc
MaxNc == 2
\* the largest int that `* 0.1` can convert to a float, scaled down to the
\* clock of the model: a larger one raises OverflowError
MaxFloat == 200
\* the longest string sent as a nonce where all strings are tried
MaxTokenLen == 3
\* hashmod().digest_size, scaled down
DigestSize == 2

MaxNow == (StartTenths + Horizon) * Sub + (Sub - 1)

-----------------------------------------------------------------------------
(* Python values *)

None == <<>>
Some(x) == <<x>>

\* characters
NUL == 0
COLON == 58

STR_0x == <<48, 120>>          \* "0x"
STR_L == <<76>>                \* "L"
STR_colon == <<COLON>>         \* ":"
STR_nul == <<NUL>>             \* "\x00"
STR_empty == <<>>              \* ""
STR_a == <<97>>                \* "a"

\* "0123456789abcdef"[d]
HexDigit(d) == IF d < 10 THEN 48 + d ELSE 87 + d

RECURSIVE HexDigits(_)
HexDigits(n) ==
    IF n < 16 THEN <<HexDigit(n)>>
    ELSE HexDigits(n \div 16) \o <<HexDigit(n % 16)>>

\* hex(n): "0x..." with an "L" suffix when n is a long
PyHex(n) == STR_0x \o HexDigits(n) \o (IF n > MaxInt THEN STR_L ELSE STR_empty)

\* s.endswith(suffix)
EndsWith(s, suffix) ==
    /\ Len(s) >= Len(suffix)
    /\ SubSeq(s, Len(s) - Len(suffix) + 1, Len(s)) = suffix

\* value of one character as a base-16 digit, -1 when it is none
DigitValue(c) ==
    IF c >= 48 /\ c <= 57 THEN c - 48
    ELSE IF c >= 97 /\ c <= 102 THEN c - 87
    ELSE IF c >= 65 /\ c <= 70 THEN c - 55
    ELSE -1

\* (the argument is bound once, by the set constructor, and the body works
\* on its value: so are the arguments of the operators below that take
\* strings)
RECURSIVE HexValue(_)
HexValue(str) ==
    CHOOSE result \in
        { IF s = <<>> THEN 0
          ELSE HexValue(SubSeq(s, 1, Len(s) - 1)) * 16 + DigitValue(s[Len(s)])
          : s \in {str} } : TRUE

\* int(s, 16): [ok |-> FALSE] stands for ValueError.  A sign and a "0x"
\* prefix are accepted as Python accepts them; surrounding whitespace, which
\* Python also strips, is not in the alphabet of the model.
IntBase16(str) ==
    CHOOSE result \in
        { LET neg == Len(s) > 0 /\ s[1] = 45
              signed == Len(s) > 0 /\ s[1] \in {43, 45}
              s1 == IF signed THEN SubSeq(s, 2, Len(s)) ELSE s
              prefixed == Len(s1) >= 2 /\ s1[1] = 48 /\ s1[2] \in {120, 88}
              s2 == IF prefixed THEN SubSeq(s1, 3, Len(s1)) ELSE s1
          IN  IF s2 = <<>> \/ \E i \in 1..Len(s2) : DigitValue(s2[i]) < 0
              THEN [ok |-> FALSE, val |-> 0]
              ELSE [ok |-> TRUE, val |-> IF neg THEN 0 - HexValue(s2) ELSE HexValue(s2)]
          : s \in {str} } : TRUE

\* positions of sep in s
Positions(str, sep) == UNION { {i \in 1..Len(s) : s[i] = sep} : s \in {str} }

Min(S) == CHOOSE x \in S : \A y \in S : x <= y
Max(S) == CHOOSE x \in S : \A y \in S : x >= y

\* s.split(":", 1)
Split1(str) ==
    CHOOSE result \in
        { IF at = {} THEN <<s>>
          ELSE <<SubSeq(s, 1, Min(at) - 1), SubSeq(s, Min(at) + 1, Len(s))>>
          : s \in {str}, at \in {Positions(str, COLON)} } : TRUE

\* s.rsplit(":", 1)
RSplit1(str) ==
    CHOOSE result \in
        { IF at = {} THEN <<s>>
          ELSE <<SubSeq(s, 1, Max(at) - 1), SubSeq(s, Max(at) + 1, Len(s))>>
          : s \in {str}, at \in {Positions(str, COLON)} } : TRUE

\* the n big-endian bytes of v
RECURSIVE BytesOf(_, _)
BytesOf(v, n) ==
    IF n = 0 THEN <<>> ELSE BytesOf(v \div 256, n - 1) \o <<v % 256>>

\* os.urandom(n), within the bound
Urandom(n) == {BytesOf(v, n) : v \in 0..MaxRand}

\* bytes.encode("hex")
RECURSIVE HexEncode(_)
HexEncode(bytes) ==
    IF bytes = <<>> THEN <<>>
    ELSE <<HexDigit(bytes[1] \div 16), HexDigit(bytes[1] % 16)>> \o HexEncode(Tail(bytes))

\* hmac.new(key, msg, hashmod).digest(), idealised: injective in (key, msg)
HmacDigest(key, msg) == <<Len(key)>> \o key \o msg

\* base64.b64encode(digest), idealised: injective, and no ":" in the output
B64Encode(digest) == [i \in 1..Len(digest) |-> digest[i] + 128]

\* pyramid_srpauth.utils.strings_differ: a comparison in constant time
strings_differ(a, b) == a # b

-----------------------------------------------------------------------------
(* Construction *)

\* the secret passed to the constructor
Secret == <<115>>

HTTP_USER_AGENT == "HTTP_USER_AGENT"
HeaderNames == {HTTP_USER_AGENT}

\* (mutant) int(timeout * 0.8), without `or None`
DefaultSoftTimeout_KeepsZero(t) == Some(((t * 8) \div 100) * 10)

\* int(timeout * 0.8) or None, with timeout in tenths of a second and the
\* result in tenths of a second
DefaultSoftTimeout(t) ==
    LET seconds == (t * 8) \div 100
    IN  IF seconds = 0 THEN None ELSE Some(seconds * 10)

\* SignedNonceManager.__init__: the values of self.timeout,
\* self.soft_timeout and self.sign_headers for the given arguments
InitTimeout(arg) == IF arg = None THEN 5 * 60 * 10 ELSE arg[1]
InitSoftTimeout(targ, sarg) ==
    IF sarg = None THEN DefaultSoftTimeout(InitTimeout(targ)) ELSE sarg
InitSignHeaders(arg) == IF arg = None THEN <<HTTP_USER_AGENT>> ELSE arg[1]

\* constructor arguments explored: (timeout, soft_timeout), tenths of a second
CtorArgs ==
    { [timeout |-> Some(3), soft_timeout |-> None, sign_headers |-> None],
      [timeout |-> Some(3), soft_timeout |-> Some(0), sign_headers |-> None],
      [timeout |-> Some(3), soft_timeout |-> Some(2), sign_headers |-> None] }

\* "SIGN" and "GENERATE"
STR_SIGN == <<83, 73, 71, 78>>
STR_GENERATE == <<71, 69, 78, 69, 82, 65, 84, 69>>

\* self._signing_key and self._generation_key
_signing_key == HmacDigest(STR_SIGN, Secret)
_generation_key == HmacDigest(STR_GENERATE, Secret)

-----------------------------------------------------------------------------
(* Requests *)

\* request.environ: for each header, whether it is present and its value
Env(present, value) == [h \in HeaderNames |-> [has |-> present, val |-> value]]

Environs == { Env(FALSE, STR_empty), Env(TRUE, STR_a), Env(TRUE, STR_nul \o STR_a) }

\* request.environ.get(header, default)
EnvironGet(environ, header, default) ==
    IF environ[header].has THEN environ[header].val ELSE default

-----------------------------------------------------------------------------
(* Signing and expiry *)

\* the bytes fed to the HMAC: value, then "\x00" and the header's value for
\* each of the sign_headers
RECURSIVE SignedMessage(_, _, _)
SignedMessage(value, headers, environ) ==
    IF headers = <<>> THEN value
    ELSE SignedMessage(value \o STR_nul \o EnvironGet(environ, Head(headers), STR_empty),
                       Tail(headers), environ)

_get_signature(value, environ) ==
    B64Encode(HmacDigest(Secret, SignedMessage(value, sign_headers, environ)))

\* (mutant) expiry_time < time.time()
_nonce_has_expired_at_Strict(nonce, to, time) ==
    LET t == IF to = None THEN timeout ELSE to[1]
    IN  \E parts \in {Split1(nonce)} :
            IF Len(parts) # 2 THEN TRUE
            ELSE \E ts \in {IntBase16(parts[1])} :
                     IF ~ts.ok THEN TRUE
                     ELSE ts.val * Sub + t * Sub < time

\* _nonce_has_expired(nonce, timeout=to) at time `time`; to is None or Some(t)
_nonce_has_expired_at(nonce, to, time) ==
    LET t == IF to = None THEN timeout ELSE to[1]
    IN  \E parts \in {Split1(nonce)} :
            IF Len(parts) # 2 THEN TRUE
            ELSE \E ts \in {IntBase16(parts[1])} :
                     IF ~ts.ok THEN TRUE
                     ELSE ts.val * Sub + t * Sub <= time

_nonce_has_expired(nonce, to) == _nonce_has_expired_at(nonce, to, now)

\* (mutant) the ValueError of a malformed nonce is not caught
_nonce_has_expired_call_Uncaught(nonce, to) ==
    LET parts == Split1(nonce)
    IN  IF Len(parts) # 2 \/ ~IntBase16(parts[1]).ok
        THEN [raised |-> Some("ValueError"), value |-> FALSE]
        ELSE [raised |-> None, value |-> _nonce_has_expired(nonce, to)]

\* the call _nonce_has_expired(nonce, to) with the exceptions it can raise:
\* the ValueError of the unpacking and of int() is caught, the OverflowError
\* of int(timestamp, 16) * 0.1 is not
_nonce_has_expired_call(nonce, to) ==
    LET parts == Split1(nonce)
    IN  IF Len(parts) # 2 \/ ~IntBase16(parts[1]).ok
        THEN [raised |-> None, value |-> TRUE]
        ELSE LET val == IntBase16(parts[1]).val
             IN  IF val > MaxFloat \/ 0 - val > MaxFloat
                 THEN [raised |-> Some("OverflowError"), value |-> FALSE]
                 ELSE [raised |-> None, value |-> _nonce_has_expired(nonce, to)]

\* (mutant) the "L" of a long is left on the timestamp
generate_nonce_KeepsL(environ, rand) ==
    LET hexed == PyHex(now \div Sub)
        timestamp == SubSeq(hexed, 3, Len(hexed))
        data == timestamp \o STR_colon \o HexEncode(rand)
        sig == _get_signature(data, environ)
    IN  data \o STR_colon \o sig

\* generate_nonce(request), `rand` the bytes os.urandom(3) returns
generate_nonce(environ, rand) ==
    LET hexed == PyHex(now \div Sub)
        stripped == SubSeq(hexed, 3, Len(hexed))
        timestamp == IF EndsWith(stripped, STR_L)
                     THEN SubSeq(stripped, 1, Len(stripped) - 1)
                     ELSE stripped
        data == timestamp \o STR_colon \o HexEncode(rand)
        sig == _get_signature(data, environ)
    IN  data \o STR_colon \o sig

\* is_valid_nonce(nonce, request) called at time `time`
is_valid_nonce_at(nonce, environ, time) ==
    IF _nonce_has_expired_at(nonce, None, time) THEN FALSE
    ELSE LET parts == RSplit1(nonce)
             data == parts[1]
             sig == parts[2]
             expected_sig == _get_signature(data, environ)
         IN  ~strings_differ(sig, expected_sig)

is_valid_nonce(nonce, environ) == is_valid_nonce_at(nonce, environ, now)

\* the call is_valid_nonce(nonce, request) with the exceptions it can raise
is_valid_nonce_call(nonce, environ) ==
    LET expired == _nonce_has_expired_call(nonce, None)
    IN  IF expired.raised # None THEN expired
        ELSE IF expired.value THEN [raised |-> None, value |-> FALSE]
        ELSE [raised |-> None, value |-> is_valid_nonce(nonce, environ)]

\* (mutant) no replacement for a nonce that is past its hard timeout
get_next_nonce_OnlyWhileValid(nonce, environ, rand) ==
    IF ~_nonce_has_expired(nonce, soft_timeout) \/ _nonce_has_expired(nonce, None)
    THEN None
    ELSE Some(generate_nonce(environ, rand))

\* (mutant) the age is compared with the hard timeout
get_next_nonce_HardTimeout(nonce, environ, rand) ==
    IF ~_nonce_has_expired(nonce, None) THEN None
    ELSE Some(generate_nonce(environ, rand))

get_next_nonce(nonce, environ, rand) ==
    IF ~_nonce_has_expired(nonce, soft_timeout) THEN None
    ELSE Some(generate_nonce(environ, rand))

-----------------------------------------------------------------------------
(* Pseudo-random bytes *)

\* assert N <= 255
MaxBlocks == 255
\* chr(i) raises ValueError unless i < 256
ChrRange == 256

RECURSIVE WeightedSum(_, _, _)
WeightedSum(x, j, k) ==
    IF j = 0 THEN 0 ELSE (WeightedSum(x, j - 1, k) + x[j] * (j + k)) % 256

\* hmac.new(key, msg, hashmod).digest() as a string of DigestSize bytes: the
\* idealised digest folded to the size of the hash
HmacDigestSized(key, msg) ==
    CHOOSE result \in
        { [k \in 1..DigestSize |-> WeightedSum(x, Len(x), k)]
          : x \in {HmacDigest(key, msg)} } : TRUE

\* int(math.ceil(size * 1.0 / self.hashmod_digest_size)), for size >= 0
BlockCount(size) ==
    IF size % DigestSize = 0 THEN size \div DigestSize ELSE size \div DigestSize + 1

\* iterations lo..hi of the loop `for i in xrange(1, N + 1)`, T0 the digest
\* before them: the strings they append to `output`.  The iterations are
\* run by halves, the second half from the last digest of the first.
RECURSIVE LoopRange(_, _, _, _)
LoopRange(T0, nonce, lo, hi) ==
    CHOOSE result \in
        { IF lo > hi THEN <<>>
          ELSE IF lo = hi
          THEN <<HmacDigestSized(_generation_key, T \o nonce \o <<lo>>)>>
          ELSE CHOOSE both \in
                   { left \o LoopRange(left[Len(left)], nonce, ((lo + hi) \div 2) + 1, hi)
                     : left \in {LoopRange(T, nonce, lo, (lo + hi) \div 2)} } : TRUE
          : T \in {T0} } : TRUE

\* the loop of get_prandom_bytes: the list `output`, or the ValueError of
\* chr(i) in the iteration i = ChrRange
PrandomLoop(nonce, N) ==
    IF N >= ChrRange THEN [raised |-> Some("ValueError"), blocks |-> <<>>]
    ELSE [raised |-> None, blocks |-> LoopRange(<<>>, nonce, 1, N)]

\* "".join(output), all strings of the list DigestSize long
Join(blocks) ==
    [j \in 1..(Len(blocks) * DigestSize) |->
        blocks[((j - 1) \div DigestSize) + 1][((j - 1) % DigestSize) + 1]]

\* (mutant) the output is not cut to the size asked for
get_prandom_bytes_NoCut(nonce, size, optimize) ==
    LET N == BlockCount(size)
        r == PrandomLoop(nonce, N)
    IN  IF ~optimize /\ N > MaxBlocks
        THEN [raised |-> Some("AssertionError"), output |-> <<>>, blocks |-> <<>>]
        ELSE IF r.raised # None
        THEN [raised |-> r.raised, output |-> <<>>, blocks |-> r.blocks]
        ELSE [raised |-> None, output |-> Join(r.blocks), blocks |-> r.blocks]

\* get_prandom_bytes(nonce, size): the exception raised, or the string
\* returned and the blocks it is cut from.  `optimize` is python -O, which
\* removes the assert statement.
get_prandom_bytes(nonce, size, optimize) ==
    LET N == BlockCount(size)
        r == PrandomLoop(nonce, N)
    IN  IF ~optimize /\ N > MaxBlocks
        THEN [raised |-> Some("AssertionError"), output |-> <<>>, blocks |-> <<>>]
        ELSE IF r.raised # None
        THEN [raised |-> r.raised, output |-> <<>>, blocks |-> r.blocks]
        ELSE [raised |-> None, output |-> SubSeq(Join(r.blocks), 1, size),
              blocks |-> r.blocks]

-----------------------------------------------------------------------------
(* The counter store and the expiry queue *)

\* limit passed to _purge_expired_nonces by set_nonce_count
PurgeLimit == 10

\* Operators of this section take their arguments by value, as the Python
\* functions do: the arguments are bound once, by a quantifier or a set
\* constructor over a singleton, and the body works on the bound values.

\* Python's ordering of str: byte by byte, a proper prefix is smaller
StrLess(x, y) ==
    \E a \in {x}, b \in {y} :
        LET n == IF Len(a) < Len(b) THEN Len(a) ELSE Len(b)
            diff == {i \in 1..n : a[i] # b[i]}
        IN  IF diff = {} THEN Len(a) < Len(b)
            ELSE a[Min(diff)] < b[Min(diff)]

\* dict operations
EmptyDict == [k \in {} |-> 0]
DictHas(d, k) == k \in DOMAIN d
DictGet(d, k, default) == IF k \in DOMAIN d THEN Some(d[k]) ELSE default
DictSet(d, k, v) == [x \in DOMAIN d \cup {k} |-> IF x = k THEN v ELSE d[x]]
DictPop(d, k) == [x \in DOMAIN d \ {k} |-> d[x]]

\* heapq._siftdown(heap, startpos, pos), positions counted from 1
RECURSIVE SiftDownFrom(_, _, _, _)
SiftDownFrom(h, startpos, p, item) ==
    CHOOSE result \in
        { IF pos > startpos /\ StrLess(newitem, heap[pos \div 2])
          THEN SiftDownFrom([heap EXCEPT ![pos] = heap[pos \div 2]], startpos,
                            pos \div 2, newitem)
          ELSE [heap EXCEPT ![pos] = newitem]
          : heap \in {h}, pos \in {p}, newitem \in {item} } : TRUE

_siftdown(h, startpos, pos) ==
    CHOOSE result \in {SiftDownFrom(heap, startpos, pos, heap[pos]) : heap \in {h}} : TRUE

\* the loop of heapq._siftup: bubble the smaller child up until a leaf
RECURSIVE SiftUpLoop(_, _)
SiftUpLoop(h, p) ==
    CHOOSE result \in
        { LET endpos == Len(heap)
              leftpos == 2 * pos
              rightpos == leftpos + 1
              childpos == IF rightpos <= endpos /\ ~StrLess(heap[leftpos], heap[rightpos])
                          THEN rightpos ELSE leftpos
          IN  IF leftpos <= endpos
              THEN SiftUpLoop([heap EXCEPT ![pos] = heap[childpos]], childpos)
              ELSE [heap |-> heap, pos |-> pos]
          : heap \in {h}, pos \in {p} } : TRUE

_siftup(h, pos) ==
    CHOOSE result \in
        { SiftDownFrom(r.heap, pos, r.pos, heap[pos])
          : heap \in {h}, r \in {SiftUpLoop(h, pos)} } : TRUE

\* heapq.heappush(heap, item): the heap afterwards
heappush(h, item) ==
    CHOOSE result \in {_siftdown(Append(heap, item), 1, Len(heap) + 1) : heap \in {h}} : TRUE

\* heapq.heappop(heap): the heap afterwards (the item returned is heap[1])
heappop(h) ==
    CHOOSE result \in
        { LET lastelt == heap[Len(heap)]
              rest == SubSeq(heap, 1, Len(heap) - 1)
          IN  IF rest = <<>> THEN rest
              ELSE _siftup([rest EXCEPT ![1] = lastelt], 1)
          : heap \in {h} } : TRUE

\* (mutant) the sweep ignores its limit
PurgeRange_NoLimit(queue, limit) == Len(queue)

\* the number of iterations of the loop of _purge_expired_nonces(limit)
PurgeRange(queue, limit) ==
    LET lim == IF limit = None THEN Len(queue) ELSE limit[1]
    IN  IF lim < Len(queue) THEN lim ELSE Len(queue)

\* (mutant) the sweep does not stop at a nonce that has not expired
PurgeIter_NoBreak(s) ==
    LET nonce == s.queue[1]
    IN  [counts |-> DictPop(s.counts, nonce),
         queue |-> heappop(s.queue),
         left |-> s.left - 1,
         popped |-> s.popped \cup {nonce}]

\* (mutant) the count of a purged nonce is left in the dict
PurgeIter_KeepsCount(s) ==
    LET nonce == s.queue[1]
    IN  IF ~_nonce_has_expired(nonce, None)
        THEN [s EXCEPT !.left = 0]
        ELSE [counts |-> s.counts,
              queue |-> heappop(s.queue),
              left |-> s.left - 1,
              popped |-> s.popped \cup {nonce}]

\* the body of the loop of _purge_expired_nonces, on the store
\* s = [counts, queue, left, popped]: `left` iterations remain (0 after a
\* break), `popped` are the nonces removed so far
PurgeIter(s) ==
    LET nonce == s.queue[1]
    IN  IF ~_nonce_has_expired(nonce, None)
        THEN [s EXCEPT !.left = 0]
        ELSE [counts |-> DictPop(s.counts, nonce),
              queue |-> heappop(s.queue),
              left |-> s.left - 1,
              popped |-> s.popped \cup {nonce}]

RECURSIVE PurgeLoop(_)
PurgeLoop(s) == IF s.left = 0 THEN s ELSE PurgeLoop(PurgeIter(s))

\* _purge_expired_nonces(limit) on the store (counts, queue)
_purge_expired_nonces(counts, queue, limit) ==
    PurgeLoop([counts |-> counts, queue |-> queue,
               left |-> PurgeRange(queue, limit), popped |-> {}])

\* get_nonce_count(nonce)
get_nonce_count(nonce) == DictGet(nonce_counts, nonce, None)

\* (mutant) the count is written on the first registration only
set_nonce_count_FirstOnly(nonce, nc) ==
    LET first == ~DictHas(nonce_counts, nonce)
        purged == _purge_expired_nonces(nonce_counts, nonce_purge_queue, Some(PurgeLimit))
    IN  [counts |-> IF first THEN DictSet(purged.counts, nonce, nc) ELSE nonce_counts,
         queue |-> IF first THEN heappush(purged.queue, nonce) ELSE nonce_purge_queue,
         first |-> first,
         popped |-> IF first THEN purged.popped ELSE {}]

\* set_nonce_count(nonce, nc) run without interruption: the store afterwards
set_nonce_count(nonce, nc) ==
    LET first == ~DictHas(nonce_counts, nonce)
        purged == _purge_expired_nonces(nonce_counts, nonce_purge_queue, Some(PurgeLimit))
        counts1 == IF first THEN purged.counts ELSE nonce_counts
        queue1 == IF first THEN heappush(purged.queue, nonce) ELSE nonce_purge_queue
    IN  [counts |-> DictSet(counts1, nonce, nc),
         queue |-> queue1,
         first |-> first,
         popped |-> IF first THEN purged.popped ELSE {}]

-----------------------------------------------------------------------------
(* State after construction *)

Threads == {1, 2}

\* the locals of a thread that is not inside set_nonce_count; swept is None
\* until the call takes the lock, then Some(length of the queue at that time)
IdleFrame == [nonce |-> STR_empty, nc |-> 0, left |-> 0, swept |-> None]

NoCall == [op |-> "none", nonce |-> STR_empty, environ |-> Env(FALSE, STR_empty),
           nc |-> 0, result |-> None, popped |-> {}]

\* SignedNonceManager(**args), the clock at StartTenths
Constructed(args) ==
    /\ now = StartTenths * Sub
    /\ ctor_args = args
    /\ timeout = InitTimeout(args.timeout)
    /\ soft_timeout = InitSoftTimeout(args.timeout, args.soft_timeout)
    /\ sign_headers = InitSignHeaders(args.sign_headers)
    /\ nonce_counts = EmptyDict
    /\ nonce_purge_queue = <<>>
    /\ nonce_purge_lock = None
    /\ pc = [th \in Threads |-> "idle"]
    /\ frame = [th \in Threads |-> IdleFrame]
    /\ issued = {}
    /\ written = EmptyDict
    /\ ever_set = {}
    /\ last = NoCall

Init == \E args \in CtorArgs : Constructed(args)

configVars == <<ctor_args, timeout, soft_timeout, sign_headers>>
storeVars == <<nonce_counts, nonce_purge_queue, nonce_purge_lock>>
threadVars == <<pc, frame>>
storeHist == <<written, ever_set>>

-----------------------------------------------------------------------------
(* Nonces a client may send *)

STR_g == <<103>>               \* "g"
STR_x == <<120>>               \* "x"
STR_0 == <<48>>                \* "0"

\* strings that are no nonce: no ":" at all, a timestamp that is no
\* hexadecimal number, an empty timestamp
Malformed == { STR_g, STR_g \o STR_colon \o STR_0, STR_colon \o STR_0 }

\* what a client can make of a nonce it holds without the key: the payload
\* extended, the timestamp moved forward, the signature replaced or dropped
Altered(nonce) ==
    LET parts == RSplit1(nonce)
        data == parts[1]
        sig == parts[2]
        fields == Split1(data)
        later == HexDigits(IntBase16(fields[1]).val + 1)
    IN  { data \o STR_nul \o STR_colon \o sig,
          later \o STR_colon \o fields[2] \o STR_colon \o sig,
          data \o STR_colon \o STR_x,
          data }

IssuedNonces == {i.nonce : i \in issued}

Candidates == IssuedNonces \cup UNION {Altered(n) : n \in IssuedNonces} \cup Malformed

-----------------------------------------------------------------------------
(* The calls that keep no state: one action per call *)

GenerateNonce(environ) ==
    /\ \E rand \in Urandom(3) :
         LET nonce == generate_nonce(environ, rand)
         IN  /\ issued' = {[nonce |-> nonce, environ |-> environ]}
             /\ last' = [NoCall EXCEPT !.op = "generate_nonce", !.environ = environ,
                                       !.result = Some(nonce)]
    /\ UNCHANGED <<now, configVars, storeVars, threadVars, storeHist>>

IsValidNonce(nonce, environ) ==
    /\ last' = [NoCall EXCEPT !.op = "is_valid_nonce", !.nonce = nonce,
                              !.environ = environ,
                              !.result = is_valid_nonce(nonce, environ)]
    /\ UNCHANGED <<now, configVars, storeVars, threadVars, issued, storeHist>>

\* the client goes on with the replacement when it is given one
GetNextNonce(nonce, environ) ==
    /\ \E rand \in Urandom(3) :
         LET result == get_next_nonce(nonce, environ, rand)
         IN  /\ last' = [NoCall EXCEPT !.op = "get_next_nonce", !.nonce = nonce,
                                       !.environ = environ, !.result = result]
             /\ issued' = IF result = None THEN issued
                          ELSE {[nonce |-> result[1], environ |-> environ]}
    /\ UNCHANGED <<now, configVars, storeVars, threadVars, storeHist>>

\* time passes; `last` describes a call made at the current instant only
Tick ==
    /\ now < MaxNow
    /\ now' = now + 1
    /\ last' = NoCall
    /\ UNCHANGED <<configVars, storeVars, threadVars, issued, storeHist>>

Next ==
    \/ \E environ \in Environs : GenerateNonce(environ)
    \/ \E nonce \in Candidates, environ \in Environs : IsValidNonce(nonce, environ)
    \/ \E nonce \in Candidates, environ \in Environs : GetNextNonce(nonce, environ)
    \/ Tick

Spec == Init /\ [][Next]_vars

-----------------------------------------------------------------------------
(* The counter store, one call at a time *)

\* the timestamp of a nonce can be read
WellFormedNonce(nonce) ==
    /\ Len(Split1(nonce)) = 2
    /\ IntBase16(Split1(nonce)[1]).ok

\* the nonce generate_nonce returns at `tenths` for the random number v
NonceAt(tenths, v, environ) ==
    LET data == HexDigits(tenths) \o STR_colon \o HexEncode(BytesOf(v, 3))
    IN  data \o STR_colon \o _get_signature(data, environ)

\* the tenth of a second a well-formed nonce was generated in
EncodedTenths(nonce) == IntBase16(Split1(nonce)[1]).val

\* nonces registered before the first state: PurgeLimit of them, generated
\* at StartTenths
BulkNonces(n) == {NonceAt(StartTenths, v, Env(TRUE, STR_a)) : v \in 1..n}

\* the nonces the calls are made on: one that sorts after the bulk, and two
\* generated one and two tenths of a second later
StoreNonces ==
    { NonceAt(StartTenths, PurgeLimit + 1, Env(TRUE, STR_a)),
      NonceAt(StartTenths + 1, 0, Env(TRUE, STR_a)),
      NonceAt(StartTenths + 2, 0, Env(TRUE, STR_a)) }

\* a nonce can be sent once it has been generated
Sendable(nonce) == WellFormedNonce(nonce) => EncodedTenths(nonce) <= now \div Sub

\* the heap after pushing the nonces of a set
RECURSIVE PushAll(_, _)
PushAll(heap, S) ==
    IF S = {} THEN heap
    ELSE LET x == CHOOSE y \in S : TRUE
         IN  PushAll(heappush(heap, x), S \ {x})

\* the manager after n first registrations at StartTenths (n = 0: as constructed)
Prefilled(n) ==
    /\ now = StartTenths * Sub
    /\ ctor_args = [timeout |-> Some(3), soft_timeout |-> None, sign_headers |-> None]
    /\ timeout = InitTimeout(ctor_args.timeout)
    /\ soft_timeout = InitSoftTimeout(ctor_args.timeout, ctor_args.soft_timeout)
    /\ sign_headers = InitSignHeaders(ctor_args.sign_headers)
    /\ nonce_counts = [k \in BulkNonces(n) |-> 1]
    /\ nonce_purge_queue = PushAll(<<>>, BulkNonces(n))
    /\ nonce_purge_lock = None
    /\ pc = [th \in Threads |-> "idle"]
    /\ frame = [th \in Threads |-> IdleFrame]
    /\ issued = {}
    /\ written = nonce_counts
    /\ ever_set = BulkNonces(n)
    /\ last = NoCall

InitStore == \E n \in {0, PurgeLimit} : Prefilled(n)

GetNonceCount(nonce) ==
    /\ last' = [NoCall EXCEPT !.op = "get_nonce_count", !.nonce = nonce,
                              !.result = get_nonce_count(nonce)]
    /\ UNCHANGED <<now, configVars, storeVars, threadVars, issued, storeHist>>

SetNonceCount(nonce, nc) ==
    LET after == set_nonce_count(nonce, nc)
    IN  /\ nonce_counts' = after.counts
        /\ nonce_purge_queue' = after.queue
        /\ written' = DictSet([k \in DOMAIN written \ after.popped |-> written[k]],
                              nonce, nc)
        /\ ever_set' = ever_set \cup {nonce}
        /\ last' = [NoCall EXCEPT !.op = "set_nonce_count", !.nonce = nonce,
                                  !.nc = nc, !.popped = after.popped]
        /\ UNCHANGED <<now, configVars, nonce_purge_lock, threadVars, issued>>

NextStore ==
    \/ \E nonce \in StoreNonces, nc \in 1..MaxNc :
         Sendable(nonce) /\ SetNonceCount(nonce, nc)
    \/ \E nonce \in StoreNonces : GetNonceCount(nonce)
    \/ \E nonce \in StoreNonces : IsValidNonce(nonce, Env(TRUE, STR_a))
    \/ Tick

SpecStore == InitStore /\ [][NextStore]_vars

-----------------------------------------------------------------------------
(* The counter store under concurrent calls: set_nonce_count step by step *)

\* the nonces the threads call set_nonce_count on, generated in the same
\* tenth of a second
ConcNonce(v) == NonceAt(StartTenths, v, Env(TRUE, STR_a))
ConcNonces == {ConcNonce(v) : v \in 0..2}

\* thread th enters set_nonce_count(nonce, nc)
Call(th, nonce, nc) ==
    /\ pc[th] = "idle"
    /\ pc' = [pc EXCEPT ![th] = "check"]
    /\ frame' = [frame EXCEPT ![th] = [IdleFrame EXCEPT !.nonce = nonce, !.nc = nc]]
    /\ UNCHANGED <<now, configVars, storeVars, issued, storeHist, last>>

\* (mutant) every call takes the lock and sweeps, registered nonce or not
Check_AlwaysLocks(th) ==
    /\ pc[th] = "check"
    /\ pc' = [pc EXCEPT ![th] = "acquire"]
    /\ UNCHANGED <<now, configVars, storeVars, frame, issued, storeHist, last>>

\* if nonce not in self._nonce_counts
Check(th) ==
    /\ pc[th] = "check"
    /\ pc' = [pc EXCEPT ![th] = IF ~DictHas(nonce_counts, frame[th].nonce)
                                 THEN "acquire" ELSE "write"]
    /\ UNCHANGED <<now, configVars, storeVars, frame, issued, storeHist, last>>

\* with self._nonce_purge_lock: the lock is taken and the sweep started, its
\* range computed from the length of the queue
Acquire(th) ==
    /\ pc[th] = "acquire"
    /\ nonce_purge_lock = None
    /\ nonce_purge_lock' = Some(th)
    /\ frame' = [frame EXCEPT ![th].left = PurgeRange(nonce_purge_queue, Some(PurgeLimit)),
                              ![th].swept = Some(Len(nonce_purge_queue))]
    /\ pc' = [pc EXCEPT ![th] = "purge"]
    /\ UNCHANGED <<now, configVars, nonce_counts, nonce_purge_queue, issued,
                   storeHist, last>>

\* one iteration of the loop of the sweep
PurgeStep(th) ==
    /\ pc[th] = "purge"
    /\ frame[th].left > 0
    /\ LET after == PurgeIter([counts |-> nonce_counts, queue |-> nonce_purge_queue,
                               left |-> frame[th].left, popped |-> {}])
       IN  /\ nonce_counts' = after.counts
           /\ nonce_purge_queue' = after.queue
           /\ frame' = [frame EXCEPT ![th].left = after.left]
    /\ UNCHANGED <<now, configVars, nonce_purge_lock, pc, issued, storeHist, last>>

\* heapq.heappush(self._nonce_purge_queue, nonce), and the lock is released
Push(th) ==
    /\ pc[th] = "purge"
    /\ frame[th].left = 0
    /\ nonce_purge_queue' = heappush(nonce_purge_queue, frame[th].nonce)
    /\ nonce_purge_lock' = None
    /\ pc' = [pc EXCEPT ![th] = "write"]
    /\ UNCHANGED <<now, configVars, nonce_counts, frame, issued, storeHist, last>>

\* (mutant) the call returns without storing the count
Write_Lost(th) ==
    /\ pc[th] = "write"
    /\ pc' = [pc EXCEPT ![th] = "idle"]
    /\ frame' = [frame EXCEPT ![th] = IdleFrame]
    /\ ever_set' = ever_set \cup {frame[th].nonce}
    /\ UNCHANGED <<now, configVars, storeVars, issued, written, last>>

\* self._nonce_counts[nonce] = nc, and the call returns
Write(th) ==
    /\ pc[th] = "write"
    /\ nonce_counts' = DictSet(nonce_counts, frame[th].nonce, frame[th].nc)
    /\ pc' = [pc EXCEPT ![th] = "idle"]
    /\ frame' = [frame EXCEPT ![th] = IdleFrame]
    /\ ever_set' = ever_set \cup {frame[th].nonce}
    /\ UNCHANGED <<now, configVars, nonce_purge_queue, nonce_purge_lock, issued,
                   written, last>>

\* a step of a call in progress
Step(th) == Check(th) \/ Acquire(th) \/ PurgeStep(th) \/ Push(th) \/ Write(th)

\* the hard timeout elapses
TimeoutPasses ==
    /\ now + timeout * Sub <= MaxNow
    /\ now' = now + timeout * Sub
    /\ UNCHANGED <<configVars, storeVars, threadVars, issued, storeHist, last>>

InitConc == Constructed([timeout |-> Some(3), soft_timeout |-> None, sign_headers |-> None])

\* thread th sends the count th
NextConc ==
    \/ \E th \in Threads, nonce \in ConcNonces : Call(th, nonce, th)
    \/ \E th \in Threads : Check(th)
    \/ \E th \in Threads : Acquire(th)
    \/ \E th \in Threads : PurgeStep(th)
    \/ \E th \in Threads : Push(th)
    \/ \E th \in Threads : Write(th)
    \/ TimeoutPasses

SpecConc == InitConc /\ [][NextConc]_vars

\* one thread registers the first nonce, the other thread the other nonces
NextConcFair ==
    \/ Call(1, ConcNonce(0), 1)
    \/ \E v \in 1..2 : Call(2, ConcNonce(v), 2)
    \/ \E th \in Threads : Check(th)
    \/ \E th \in Threads : Acquire(th)
    \/ \E th \in Threads : PurgeStep(th)
    \/ \E th \in Threads : Push(th)
    \/ \E th \in Threads : Write(th)
    \/ TimeoutPasses

\* a thread that is inside a call goes on, and time passes
SpecConcFair ==
    /\ InitConc /\ [][NextConcFair]_vars
    /\ \A th \in Threads : WF_vars(Step(th))
    /\ WF_vars(TimeoutPasses)

-----------------------------------------------------------------------------
(* is_valid_nonce on arbitrary strings *)

\* ":", "0", "f", "g"
TokenAlphabet == {COLON, 48, 102, 103}

\* every string of at most MaxTokenLen characters
Tokens == UNION {[1..k -> TokenAlphabet] : k \in 0..MaxTokenLen}

\* the store is empty or holds two nonces
InitParse == \E n \in {0, 2} : Prefilled(n)

IsValidNonceCall(nonce, environ) ==
    /\ last' = [NoCall EXCEPT !.op = "is_valid_nonce_call", !.nonce = nonce,
                              !.environ = environ,
                              !.result = is_valid_nonce_call(nonce, environ)]
    /\ UNCHANGED <<now, configVars, storeVars, threadVars, issued, storeHist>>

NextParse ==
    \/ \E nonce \in Tokens : IsValidNonceCall(nonce, Env(TRUE, STR_a))
    \/ Tick

SpecParse == InitParse /\ [][NextParse]_vars

-----------------------------------------------------------------------------
(* get_prandom_bytes on every size *)

\* the sizes asked for: up to a little more than MaxBlocks blocks
MaxSize == MaxBlocks * DigestSize + DigestSize + 1

\* the manager as constructed, the interpreter run with or without -O, and
\* a call get_prandom_bytes(nonce, size) about to be made (`nc` holds size)
InitPrandom ==
    \E size \in 0..MaxSize, nonce \in {STR_empty, STR_a}, optimize \in BOOLEAN :
        /\ now = StartTenths * Sub
        /\ ctor_args = [timeout |-> Some(3), soft_timeout |-> None,
                        sign_headers |-> None, optimize |-> optimize]
        /\ timeout = InitTimeout(ctor_args.timeout)
        /\ soft_timeout = InitSoftTimeout(ctor_args.timeout, ctor_args.soft_timeout)
        /\ sign_headers = InitSignHeaders(ctor_args.sign_headers)
        /\ nonce_counts = EmptyDict
        /\ nonce_purge_queue = <<>>
        /\ nonce_purge_lock = None
        /\ pc = [th \in Threads |-> "idle"]
        /\ frame = [th \in Threads |-> IdleFrame]
        /\ issued = {}
        /\ written = EmptyDict
        /\ ever_set = {}
        /\ last = [NoCall EXCEPT !.op = "call get_prandom_bytes", !.nonce = nonce,
                                 !.nc = size]

GetPrandomBytes ==
    /\ last.op = "call get_prandom_bytes"
    /\ last' = [last EXCEPT !.op = "get_prandom_bytes",
                            !.result = get_prandom_bytes(last.nonce, last.nc,
                                                         ctor_args.optimize)]
    /\ UNCHANGED <<now, configVars, storeVars, threadVars, issued, storeHist>>

NextPrandom == GetPrandomBytes

SpecPrandom == InitPrandom /\ [][NextPrandom]_vars

-----------------------------------------------------------------------------
(* Two threads that call set_nonce_count on the same nonce *)

\* the nonce both threads send
RaceNonce == ConcNonce(0)

\* the store is empty, or holds one nonce more than a sweep removes
InitRace == \E n \in {0, PurgeLimit + 1} : Prefilled(n)

\* thread th sends the count th
NextRace ==
    \/ \E th \in Threads : Call(th, RaceNonce, th)
    \/ \E th \in Threads : Check(th)
    \/ \E th \in Threads : Acquire(th)
    \/ \E th \in Threads : PurgeStep(th)
    \/ \E th \in Threads : Push(th)
    \/ \E th \in Threads : Write(th)
    \/ TimeoutPasses

\* a thread inside a call goes on; a thread that waits for the lock gets it
\* when the lock is free again and again
SpecRace ==
    /\ InitRace /\ [][NextRace]_vars
    /\ \A th \in Threads : WF_vars(Step(th)) /\ SF_vars(Acquire(th))

-----------------------------------------------------------------------------
(* Properties of issuing, validating and renewing *)

\* the timestamp of a nonce can be read
WellFormed(nonce) == WellFormedNonce(nonce)

\* the time encoded in a well-formed nonce, and its age now, in clock units
EncodedTime(nonce) == IntBase16(Split1(nonce)[1]).val * Sub
Age(nonce) == now - EncodedTime(nonce)

\* the values a request gives to the headers the signature is bound to
SignedFields(environ) ==
    [k \in 1..Len(sign_headers) |-> EnvironGet(environ, sign_headers[k], STR_empty)]

\* C2: the nonce generate_nonce(C) returns is valid for C at the instant it
\* is returned.
C2_FreshNonceIsValid ==
    last.op = "generate_nonce" => is_valid_nonce(last.result[1], last.environ)

\* C2 witness: a nonce has just been generated, in the last fraction of a
\* tenth of a second, so that its timestamp is already in the past.
C2_Witness ==
    /\ last.op = "generate_nonce"
    /\ now % Sub = Sub - 1
    /\ now \div Sub > MaxInt

\* C3: is_valid_nonce is false whenever the request differs, in a header the
\* signature is bound to, from the request the nonce was issued for; also
\* for a nonce whose payload the client altered.
C3_BoundToContext ==
    last.op = "is_valid_nonce" =>
        \A i \in issued :
            ( /\ last.nonce \in {i.nonce} \cup Altered(i.nonce)
              /\ SignedFields(last.environ) # SignedFields(i.environ) )
            => last.result = FALSE

\* C4: is_valid_nonce is false for every nonce whose age is at least the
\* hard timeout, whatever its signature; and a nonce that is rejected for
\* its age is rejected at every later time.
C4_ExpiredIsInvalid ==
    ( /\ last.op = "is_valid_nonce"
      /\ WellFormed(last.nonce)
      /\ Age(last.nonce) >= timeout * Sub )
    => /\ last.result = FALSE
       /\ \A later \in now..MaxNow, environ \in Environs :
            ~is_valid_nonce_at(last.nonce, environ, later)

\* C4 witness: a nonce with the right signature for the request is rejected
\* because its age has reached the hard timeout exactly.
C4_Witness ==
    /\ last.op = "is_valid_nonce"
    /\ [nonce |-> last.nonce, environ |-> last.environ] \in issued
    /\ Age(last.nonce) = timeout * Sub
    /\ last.result = FALSE

\* a soft timeout is set, above zero and below the hard timeout
SoftBelowHard ==
    /\ soft_timeout # None
    /\ soft_timeout[1] > 0
    /\ soft_timeout[1] < timeout

\* C5: with a soft timeout below the hard timeout, get_next_nonce returns
\* None while the age is below the soft timeout; from the soft timeout up to
\* the hard timeout it returns another nonce, which is valid for the request.
C5_RenewalWindow ==
    (last.op = "get_next_nonce" /\ WellFormed(last.nonce) /\ SoftBelowHard) =>
        /\ Age(last.nonce) < soft_timeout[1] * Sub => last.result = None
        /\ ( /\ Age(last.nonce) >= soft_timeout[1] * Sub
             /\ Age(last.nonce) < timeout * Sub )
           => /\ last.result # None
              /\ last.result[1] # last.nonce
              /\ is_valid_nonce(last.result[1], last.environ)

\* C5 witness: a replacement is returned for a nonce whose age is exactly
\* the soft timeout.
C5_Witness ==
    /\ last.op = "get_next_nonce"
    /\ SoftBelowHard
    /\ WellFormed(last.nonce)
    /\ Age(last.nonce) = soft_timeout[1] * Sub
    /\ last.result # None

\* the timeout get_next_nonce compares the age with
RenewalTimeout == IF soft_timeout = None THEN timeout ELSE soft_timeout[1]

\* C6 as stated: a replacement is returned only for a nonce past its soft
\* timeout and within its hard timeout; None in every other case.
C6_Original ==
    (last.op = "get_next_nonce" /\ last.result # None) =>
        /\ WellFormed(last.nonce)
        /\ Age(last.nonce) >= RenewalTimeout * Sub
        /\ Age(last.nonce) < timeout * Sub

\* C6 amended: get_next_nonce returns None exactly for a nonce whose
\* timestamp can be read and whose age is below the soft timeout (the hard
\* timeout when no soft timeout is set); in every other case, a nonce past
\* its hard timeout and a malformed one included, it returns a nonce
\* generated at the time of the call.
C6_RenewsUnlessYoung ==
    last.op = "get_next_nonce" =>
        /\ last.result = None <=>
             (WellFormed(last.nonce) /\ Age(last.nonce) < RenewalTimeout * Sub)
        /\ last.result # None =>
             /\ WellFormed(last.result[1])
             /\ EncodedTime(last.result[1]) = (now \div Sub) * Sub

\* C6 witness: a replacement is returned for a nonce past its hard timeout.
C6_Witness ==
    /\ last.op = "get_next_nonce"
    /\ last.result # None
    /\ WellFormed(last.nonce)
    /\ Age(last.nonce) >= timeout * Sub

\* the soft timeout was left unset and 80% of the hard timeout is less than
\* a second
SoftUnsetAndSmall ==
    /\ ctor_args.soft_timeout = None
    /\ timeout * 8 < 100

\* C7 as stated: with the soft timeout given as 0, or left unset with a
\* small hard timeout, no replacement is returned for a nonce within its
\* hard timeout.
C7_Original ==
    ( /\ last.op = "get_next_nonce"
      /\ ctor_args.soft_timeout = Some(0) \/ SoftUnsetAndSmall
      /\ WellFormed(last.nonce)
      /\ Age(last.nonce) < timeout * Sub )
    => last.result = None

\* C7 amended: with the soft timeout left unset and a hard timeout so small
\* that 80% of it truncates to zero, get_next_nonce returns None for a nonce
\* within its hard timeout; a soft timeout given as 0 disables nothing, and
\* get_next_nonce then returns a replacement for every nonce of age >= 0.
C7_UnsetDisablesZeroRenews ==
    (last.op = "get_next_nonce" /\ WellFormed(last.nonce)) =>
        /\ (SoftUnsetAndSmall /\ Age(last.nonce) < timeout * Sub)
           => last.result = None
        /\ (ctor_args.soft_timeout = Some(0) /\ Age(last.nonce) >= 0)
           => last.result # None

\* C7 witness: the soft timeout was left unset, the nonce is older than 80%
\* of the hard timeout and within it, and None is returned.
C7_Witness ==
    /\ last.op = "get_next_nonce"
    /\ SoftUnsetAndSmall
    /\ WellFormed(last.nonce)
    /\ Age(last.nonce) * 10 >= timeout * Sub * 8
    /\ Age(last.nonce) < timeout * Sub
    /\ last.result = None

-----------------------------------------------------------------------------
(* Properties of the counter store, one call at a time *)

\* C1: get_nonce_count(t) returns the count of the last set_nonce_count(t, n)
\* unless a purge sweep has removed t since, and None for a nonce that
\* set_nonce_count was never called on.
C1_GetReturnsLastSet ==
    last.op = "get_nonce_count" =>
        /\ DictHas(written, last.nonce) => last.result = Some(written[last.nonce])
        /\ last.nonce \notin ever_set => last.result = None

\* C1 witness: the count last set on a nonce is read back, the nonce past
\* its hard timeout and not purged yet.
C1_Witness ==
    /\ last.op = "get_nonce_count"
    /\ DictHas(written, last.nonce)
    /\ last.result = Some(MaxNc)
    /\ _nonce_has_expired(last.nonce, None)

\* the step is a set_nonce_count call that registers a nonce
Registers ==
    /\ last'.op = "set_nonce_count"
    /\ ~DictHas(nonce_counts, last'.nonce)

\* the queue entries that sort before the nonce t
EntriesBefore(t) ==
    {i \in 1..Len(nonce_purge_queue) : StrLess(nonce_purge_queue[i], t)}

\* is_valid_nonce rejects a nonce that has a count and is past its hard timeout
RejectedBeforePurge ==
    ( /\ last.op = "is_valid_nonce"
      /\ DictHas(nonce_counts, last.nonce)
      /\ WellFormedNonce(last.nonce)
      /\ now - EncodedTenths(last.nonce) * Sub >= timeout * Sub )
    => last.result = FALSE

\* C8 as stated: a nonce with a count that is past its hard timeout has no
\* count after one set_nonce_count call that registers another nonce, and
\* is_valid_nonce rejects it before that.
C8_Original ==
    /\ []RejectedBeforePurge
    /\ [][ Registers =>
             \A t \in DOMAIN nonce_counts :
                ( /\ last'.nonce # t
                  /\ _nonce_has_expired(t, None) )
                => ~DictHas(nonce_counts', t) ]_vars

\* C8 amended: a nonce with a count that is past its hard timeout has no
\* count after one set_nonce_count call that registers another nonce,
\* provided fewer than 10 queue entries sort before it and all of them are
\* past the hard timeout too; is_valid_nonce rejects it from the moment of
\* expiry, purged or not.
C8_PurgedWhenReached ==
    /\ []RejectedBeforePurge
    /\ [][ Registers =>
             \A t \in DOMAIN nonce_counts :
                ( /\ last'.nonce # t
                  /\ _nonce_has_expired(t, None)
                  /\ Cardinality(EntriesBefore(t)) < PurgeLimit
                  /\ \A i \in EntriesBefore(t) :
                       _nonce_has_expired(nonce_purge_queue[i], None) )
                => ~DictHas(nonce_counts', t) ]_vars

\* C8 witness: the registration of a nonce has just purged another one,
\* which is_valid_nonce rejected already.
C8_Witness ==
    /\ last.op = "set_nonce_count"
    /\ \E t \in StoreNonces :
         /\ t \in last.popped
         /\ t # last.nonce
         /\ ~DictHas(nonce_counts, t)
         /\ ~is_valid_nonce(t, Env(TRUE, STR_a))

-----------------------------------------------------------------------------
(* Properties of the counter store under concurrent calls *)

\* C9: if registrations of new nonces keep occurring, every count whose
\* nonce is past its hard timeout is eventually removed from the store.
C9_ExpiredEventuallyPurged ==
    []<><<\E th \in Threads : Acquire(th)>>_vars =>
        \A v \in 0..2 :
            ( /\ DictHas(nonce_counts, ConcNonce(v))
              /\ _nonce_has_expired(ConcNonce(v), None) )
            ~> ~DictHas(nonce_counts, ConcNonce(v))

\* the number of times the nonce t is in the expiry queue
TimesQueued(t) ==
    Cardinality({i \in 1..Len(nonce_purge_queue) : nonce_purge_queue[i] = t})

\* C10: every nonce that has a count is in the expiry queue at most once.
C10_QueuedAtMostOnce ==
    \A t \in DOMAIN nonce_counts : TimesQueued(t) <= 1

-----------------------------------------------------------------------------
(* Properties of two calls on the same nonce *)

\* C11: when two threads call set_nonce_count(t, 1) and set_nonce_count(t, 2)
\* on the same unexpired nonce t, both calls complete, and from the moment one
\* of them has completed get_nonce_count(t) returns 1 or 2, never None.
C11_SameNonceLastWriteWins ==
    /\ [] ( ( /\ RaceNonce \in ever_set
              /\ ~_nonce_has_expired(RaceNonce, None) )
            => get_nonce_count(RaceNonce) \in {Some(1), Some(2)} )
    /\ \A th \in Threads : (pc[th] # "idle") ~> (pc[th] = "idle")

\* C11 witness: both threads registered the unexpired nonce at the same
\* time (it is queued twice), both calls are over, and the count is the one
\* thread 1 sent.
C11_Witness ==
    /\ \A th \in Threads : pc[th] = "idle"
    /\ TimesQueued(RaceNonce) = 2
    /\ ~_nonce_has_expired(RaceNonce, None)
    /\ get_nonce_count(RaceNonce) = Some(1)

-----------------------------------------------------------------------------
(* Properties of is_valid_nonce on malformed nonces *)

\* the string has no ":" or the part before its first ":" is not a
\* (non-empty) string of hexadecimal digits
IsMalformed(token) ==
    \/ Positions(token, COLON) = {}
    \/ LET timestamp == Split1(token)[1]
       IN  timestamp = <<>> \/ \E i \in 1..Len(timestamp) : DigitValue(timestamp[i]) < 0

\* C12: is_valid_nonce returns False on every malformed nonce, raises
\* nothing, and leaves the counts and the expiry queue as they are.
C12_MalformedIsInvalid ==
    /\ [] ( (last.op = "is_valid_nonce_call" /\ IsMalformed(last.nonce))
            => last.result = [raised |-> None, value |-> FALSE] )
    /\ [][ last'.op = "is_valid_nonce_call" => UNCHANGED storeVars ]_vars

\* C12 witness: is_valid_nonce has returned False on a nonce without ":" and
\* on one whose timestamp is no number, the store not empty.
C12_Witness ==
    /\ last.op = "is_valid_nonce_call"
    /\ last.nonce \in {<<103>>, <<103, COLON, 48>>}
    /\ last.result = [raised |-> None, value |-> FALSE]
    /\ nonce_purge_queue # <<>>

-----------------------------------------------------------------------------
(* Properties of get_prandom_bytes *)

\* the smallest number of blocks of DigestSize bytes that hold `size` bytes
CeilBlocks(size) == Min({n \in 0..(size + 1) : n * DigestSize >= size})

\* each block is the digest of the block before it, the nonce and the
\* number of the block, under the generation key
Chained(blocks, nonce) ==
    \A i \in 1..Len(blocks) :
        blocks[i] = HmacDigestSized(_generation_key,
                        (IF i = 1 THEN <<>> ELSE blocks[i - 1]) \o nonce \o <<i>>)

\* C13: for 0 <= size <= 255 * DigestSize get_prandom_bytes returns exactly
\* size bytes, the first bytes of ceil(size / DigestSize) chained blocks; for
\* a larger size it raises (the AssertionError of the assert, where the
\* interpreter keeps assert statements) and returns nothing.
C13_PrandomLength ==
    last.op = "get_prandom_bytes" =>
        LET size == last.nc
            r == last.result
        IN  IF size <= MaxBlocks * DigestSize
            THEN /\ r.raised = None
                 /\ Len(r.output) = size
                 /\ Len(r.blocks) = CeilBlocks(size)
                 /\ Chained(r.blocks, last.nonce)
                 /\ r.output = SubSeq(Join(r.blocks), 1, size)
            ELSE /\ r.raised # None
                 /\ ~ctor_args.optimize => r.raised = Some("AssertionError")

\* C13 witness: the largest size allowed was asked for and returned, its
\* last block cut.
C13_Witness ==
    /\ last.op = "get_prandom_bytes"
    /\ last.nc = MaxBlocks * DigestSize - 1
    /\ last.result.raised = None
    /\ Len(last.result.output) = last.nc
    /\ Len(last.result.blocks) = MaxBlocks

-----------------------------------------------------------------------------
(* Properties of the sweep *)

\* C14: whenever the count of a nonce disappears from the store, the nonce
\* is past its hard timeout at that moment.
C14_OnlyExpiredRemoved ==
    [][ \A t \in DOMAIN nonce_counts :
          ~DictHas(nonce_counts', t) => _nonce_has_expired(t, None) ]_vars

\* C14 witness: a nonce whose count was written has lost it to the sweep of
\* a call that is still in progress.
C14_Witness ==
    \E t \in ever_set, th \in Threads :
        /\ ~DictHas(nonce_counts, t)
        /\ _nonce_has_expired(t, None)
        /\ pc[th] = "purge"
        /\ frame[th].swept # None
        /\ Len(nonce_purge_queue) < frame[th].swept[1]

\* C15: whenever no set_nonce_count call is in progress, every nonce that
\* has a count is in the expiry queue.
C15_CountedIsQueued ==
    (\A th \in Threads : pc[th] = "idle")
        => \A t \in DOMAIN nonce_counts : TimesQueued(t) >= 1

\* C16: whenever the expiry queue holds a nonce that is past its hard
\* timeout, the head of the queue is past it too.
C16_HeadIsOldest ==
    (\E i \in 1..Len(nonce_purge_queue) : _nonce_has_expired(nonce_purge_queue[i], None))
        => _nonce_has_expired(nonce_purge_queue[1], None)

\* C17: a set_nonce_count call that finds its nonce in the counter store goes
\* straight to the write of the count: it never holds the purge lock, never
\* starts a sweep, and its steps leave the expiry queue and the lock as they
\* are and change nothing in the counter store but the count of that nonce.
FoundRegistered(th) ==
    /\ pc[th] = "check"
    /\ DictHas(nonce_counts, frame[th].nonce)
WritesUnlocked(th) ==
    /\ pc[th] = "write"
    /\ frame[th].swept = None
C17_RegisteredSkipsLock ==
    /\ [][ \A th \in Threads :
              (FoundRegistered(th) /\ pc'[th] # pc[th])
                  => /\ pc'[th] = "write"
                     /\ frame'[th].swept = None
                     /\ UNCHANGED <<nonce_counts, nonce_purge_queue, nonce_purge_lock>> ]_vars
    /\ [][ \A th \in Threads :
              (WritesUnlocked(th) /\ pc'[th] # pc[th])
                  => /\ pc'[th] = "idle"
                     /\ UNCHANGED <<nonce_purge_queue, nonce_purge_lock>>
                     /\ nonce_counts' = DictSet(nonce_counts, frame[th].nonce, frame[th].nc) ]_vars
    /\ [] ( \A th \in Threads :
              WritesUnlocked(th) => nonce_purge_lock # Some(th) )

\* a call on a registered nonce is about to write the count, without having
\* swept, while the other thread holds the lock
C17_Witness ==
    \E th \in Threads :
        /\ WritesUnlocked(th)
        /\ DictHas(nonce_counts, frame[th].nonce)
        /\ nonce_counts[frame[th].nonce] # frame[th].nc
        /\ nonce_purge_lock # None
        /\ nonce_purge_queue # <<>>

\* C18: every set_nonce_count call returns, and holds the purge lock only
\* between taking it and the push; the sweep of a call examines at most
\* min(10, length of the queue) entries and removes at most 10, so that after
\* the push of a first registration the queue has at least the length it had
\* when the lock was taken, minus 10, plus 1.
Removed(th) == frame[th].swept[1] - Len(nonce_purge_queue)
C18_TerminatesBoundedSweep ==
    /\ \A th \in Threads : (pc[th] # "idle") ~> (pc[th] = "idle")
    /\ [] ( \A th \in Threads :
              (nonce_purge_lock = Some(th)) <=> (pc[th] = "purge") )
    /\ [] ( \A th \in Threads :
              (pc[th] = "purge")
                  => /\ Removed(th) >= 0
                     /\ Removed(th) + frame[th].left <= PurgeLimit
                     /\ Removed(th) + frame[th].left <= frame[th].swept[1] )
    /\ [][ \A th \in Threads :
              (pc[th] = "purge" /\ pc'[th] = "write")
                  => Len(nonce_purge_queue')
                         >= frame[th].swept[1] - PurgeLimit + 1 ]_vars

\* a first registration has found more than 10 expired nonces in the queue,
\* removed exactly 10 of them and pushed its own
C18_Witness ==
    \E th \in Threads :
        /\ pc[th] = "write"
        /\ frame[th].swept # None
        /\ frame[th].swept[1] > PurgeLimit
        /\ Len(nonce_purge_queue) = frame[th].swept[1] - PurgeLimit + 1
        /\ nonce_purge_lock = None

-----------------------------------------------------------------------------
(* Properties of the signature *)

\* the part of a nonce that is signed: all but the signature
PayloadOf(nonce) == RSplit1(nonce)[1]

\* C19: the bytes fed to the HMAC determine the payload and the values of
\* the signed headers: when is_valid_nonce recomputes the signature for a
\* payload and a request that differ, as a pair, from the payload and the
\* request of an issued nonce, it signs other bytes than were signed then.
C19_SignedMessageInjective ==
    ( /\ last.op = "is_valid_nonce"
      /\ WellFormed(last.nonce) )
    => \A i \in issued :
         <<PayloadOf(last.nonce), SignedFields(last.environ)>>
                # <<PayloadOf(i.nonce), SignedFields(i.environ)>>
         => SignedMessage(PayloadOf(last.nonce), sign_headers, last.environ)
                # SignedMessage(PayloadOf(i.nonce), sign_headers, i.environ)

\* the signature of `value` for a request under the given key
SignatureUnder(key, value, environ) ==
    B64Encode(HmacDigest(key, SignedMessage(value, sign_headers, environ)))

\* C20: the signature of a nonce generate_nonce returns is the HMAC of the
\* signed bytes under the key derived from the secret with the label "SIGN",
\* and not the HMAC of those bytes under the secret itself.
C20_SignedUnderSigningKey ==
    last.op = "generate_nonce" =>
        LET parts == RSplit1(last.result[1])
        IN  /\ parts[2] = SignatureUnder(_signing_key, parts[1], last.environ)
            /\ parts[2] # SignatureUnder(Secret, parts[1], last.environ)

====
